---- MODULE Spec2Model ----
(***************************************************************************)
(* A model of the pymeta runtime (src/pymeta/runtime.py): the OMetaBase    *)
(* engine executing a compiled grammar.  Rule procedures are the code the  *)
(* grammar compiler emits (the shape seen in src/pymeta/boot.py): every    *)
(* combinator call is followed by considerError(lastError) and every       *)
(* closure returns (value, self.currentError).  The Python call stack is   *)
(* the variable stack; ctl says what the interpreter does next.            *)
(***************************************************************************)
EXTENDS Integers, Sequences, FiniteSets, TLC

\* Longest source text the parser is run on.
MaxLen == 5

\* Python's None used as a failure position: in Python 2 None orders below
\* every integer, as -1 orders below every position.
NoPos == -1

(***************************************************************************)
(* Values produced by rules.  Every value is a tagged tuple.               *)
(***************************************************************************)
PyNone == <<"None">>
PyTrue == <<"True">>
PyFalse == <<"False">>
Chr(c) == <<"chr", c>>
Add(a, b) == <<"add", a, b>>
List(s) == <<"list", s>>
Str(s) == <<"str", s>>
Unbound == <<"unbound">>

(***************************************************************************)
(* Failures: (position, expected items).  An absent item list (None) and   *)
(* an empty one are both the empty set: the code only tests its truth      *)
(* value and iterates over it.                                             *)
(***************************************************************************)
Err(p, e) == [pos |-> p, exp |-> e]

expected(typ, val) == {<<"expected", typ, val>>}

eof == {<<"message", "end of input">>}

EOFError(position) == Err(position, eof)

\* lastError of an embedded Python expression: `eval(...), None`
NoError == Err(NoPos, {})

(***************************************************************************)
(* joinErrors: sort by position, furthest first, then collect the items of *)
(* the leading run of errors at the first position.                        *)
(***************************************************************************)
RECURSIVE InsertDesc(_, _)
InsertDesc(e, s) ==
    IF s = <<>> THEN <<e>>
    ELSE IF e.pos > Head(s).pos THEN <<e>> \o s
    ELSE <<Head(s)>> \o InsertDesc(e, Tail(s))

RECURSIVE SortDesc(_)
SortDesc(errors) ==
    IF errors = <<>> THEN <<>>
    ELSE InsertDesc(Head(errors), SortDesc(Tail(errors)))

\* joinErrors without the `else: break`: items of every error are kept.
CollectRunAll(pos, s) == UNION {s[i].exp : i \in 1..Len(s)}

RECURSIVE CollectRun(_, _)
CollectRun(pos, s) ==
    IF s = <<>> THEN {}
    ELSE IF Head(s).pos = pos THEN Head(s).exp \cup CollectRun(pos, Tail(s))
    ELSE {}

joinErrors(errors) ==
    LET sorted == SortDesc(errors)
        pos == sorted[1].pos
    IN Err(pos, CollectRun(pos, sorted))

(***************************************************************************)
(* considerError: the stored furthest failure after one more report.       *)
(***************************************************************************)
\* `error[1]` as a condition: a non-empty list of items.  The failure of
\* _interleave has an integer there, true unless it is 0.
Truth(exp) == exp # {} /\ exp # {<<"position", 0>>}

considerError(cur, error) ==
    IF Truth(error.exp) /\ error.pos > cur.pos THEN error ELSE cur

(***************************************************************************)
(* Grammar expressions, as the compiler lays them out: a closure is a      *)
(* sequence of elements (combinator calls), an element may bind its value. *)
(***************************************************************************)
Elem(op, c, alts) ==
    [op |-> op, c |-> c, alts |-> alts, bind |-> "", args |-> <<>>,
     names |-> <<>>]
Exactly(c) == Elem("exactly", c, <<>>)
Apply(r) == Elem("apply", r, <<>>)
Or(alts) == Elem("or", "", alts)
Xor(alts) == Elem("xor", "", alts)
Not(f) == Elem("not", "", <<f>>)
Many(f) == Elem("many", "", <<f>>)
\* e+ is compiled to self.many(fn, fn())
Many1(f) == Elem("many1", "", <<f>>)
ListPattern(f) == Elem("listpattern", "", <<f>>)
ConsumedBy(f) == Elem("consumed_by", "", <<f>>)
\* self._apply(self.rule_r, "r", [arg, ...]) with a non-empty list
ApplyWith(r, args) == [Elem("applyargs", r, <<>>) EXCEPT !.args = args]
\* self._interleave(_locals, mod, fun, name, mod, fun, name, ...)
Interleave(mods, funs, names) ==
    [Elem("interleave", "", funs) EXCEPT !.args = mods, !.names = names]
Action(f) == Elem("action", f, <<>>)
Bind(e, name) == [e EXCEPT !.bind = name]
Body(es) == [k |-> "seq", es |-> es]
OptNone == [k |-> "none", es |-> <<>>]
Optional(f) == Or(<<f, OptNone>>)
\* self.pred(fn), fn the closure holding the embedded expression
Pred(f) == Elem("pred", "", <<Body(<<Action(f)>>)>>)

(***************************************************************************)
(* The grammars the engine is run on.  Each has a rule `grammar`, the only *)
(* rule parse applies.                                                     *)
(*   direct    Expr = Expr:a '+' num:b -> a+b | num      num = '1' | '2'   *)
(*   indirect  A = B:a '+' num:b -> a+b | num            B = A             *)
(*   suffix    A = A 'b'* | 'a'                                            *)
(*   guarded   A = A 'b' | ~A 'a'                                          *)
(*   pair      grammar = 'a' 'b'                                           *)
(*   opts      grammar = 'a' 'b'? 'c'?                                     *)
(*   choice    grammar = ('a' 'b' | 'a' 'c') | 'd'                         *)
(*   excl      grammar = ('a' 'b' || 'a' || anything 'b')                  *)
(*   neg       grammar = ~'a' anything end                                 *)
(*   lines     grammar = ('a' | '\n')* end                                 *)
(*   span      grammar = <letter+>                                         *)
(*   listp     grammar = ['1' '2']          (the source is a list)         *)
(*   inter     grammar = ('a':a && 'b'+:b && 'c'?)                         *)
(*   args      grammar = pre('1', '2') exactly('a')                        *)
(*             pre = anything:a anything:b anything -> a+b                 *)
(*   guard     grammar = anything 'b'? anything:a ?(a == 'a')              *)
(*   rep       grammar = anything 'c'? ('a' && 'b')*                       *)
(*   spin      grammar = ('a'?)*                                           *)
(***************************************************************************)
NumRule == Body(<<Or(<<Body(<<Exactly("1")>>), Body(<<Exactly("2")>>)>>)>>)

SumRule(left) ==
    Body(<<Or(<<Body(<<Bind(Apply(left), "a"), Exactly("+"),
                       Bind(Apply("num"), "b"), Action("add")>>),
                Body(<<Apply("num")>>)>>)>>)

Grammars ==
    [direct |->
        [alphabet |-> {"1", "2", "+"},
         rules |-> [grammar |-> Body(<<Apply("Expr")>>),
                    Expr |-> SumRule("Expr"),
                    num |-> NumRule]],
     indirect |->
        [alphabet |-> {"1", "2", "+"},
         rules |-> [grammar |-> Body(<<Apply("A")>>),
                    A |-> SumRule("B"),
                    B |-> Body(<<Apply("A")>>),
                    num |-> NumRule]],
     suffix |->
        [alphabet |-> {"a", "b"},
         rules |-> [grammar |-> Body(<<Apply("A")>>),
                    A |-> Body(<<Or(<<Body(<<Apply("A"),
                                             Many(Body(<<Exactly("b")>>))>>),
                                      Body(<<Exactly("a")>>)>>)>>)]],
     guarded |->
        [alphabet |-> {"a", "b"},
         rules |-> [grammar |-> Body(<<Apply("A")>>),
                    A |-> Body(<<Or(<<Body(<<Apply("A"), Exactly("b")>>),
                                      Body(<<Not(Body(<<Apply("A")>>)),
                                             Exactly("a")>>)>>)>>)]],
     pair |->
        [alphabet |-> {"a", "b", "c"},
         rules |-> [grammar |-> Body(<<Exactly("a"), Exactly("b")>>)]],
     opts |->
        [alphabet |-> {"a", "b", "c"},
         rules |-> [grammar |->
                      Body(<<Exactly("a"),
                             Optional(Body(<<Exactly("b")>>)),
                             Optional(Body(<<Exactly("c")>>))>>)]],
     choice |->
        [alphabet |-> {"a", "b", "c", "d"},
         rules |-> [grammar |->
                      Body(<<Or(<<Body(<<Or(<<Body(<<Exactly("a"),
                                                     Exactly("b")>>),
                                              Body(<<Exactly("a"),
                                                     Exactly("c")>>)>>)>>),
                                  Body(<<Exactly("d")>>)>>)>>)]],
     excl |->
        [alphabet |-> {"a", "b"},
         rules |-> [grammar |->
                      Body(<<Xor(<<Body(<<Exactly("a"), Exactly("b")>>),
                                   Body(<<Exactly("a")>>),
                                   Body(<<Apply("anything"),
                                          Exactly("b")>>)>>)>>)]],
     neg |->
        [alphabet |-> {"a", "b"},
         rules |-> [grammar |->
                      Body(<<Not(Body(<<Exactly("a")>>)),
                             Apply("anything"), Apply("end")>>)]],
     lines |->
        [alphabet |-> {"a", "b", "\n"},
         rules |-> [grammar |->
                      Body(<<Many(Body(<<Or(<<Body(<<Exactly("a")>>),
                                              Body(<<Exactly("\n")>>)>>)>>)),
                             Apply("end")>>)]],
     span |->
        [alphabet |-> {"a", "b", " "},
         rules |-> [grammar |->
                      Body(<<ConsumedBy(
                          Body(<<Many1(Body(<<Apply("letter")>>))>>))>>)]],
     listp |->
        [alphabet |-> {"x", "[1]", "[12]", "[123]"},
         rules |-> [grammar |->
                      Body(<<ListPattern(Body(<<Exactly("1"),
                                                Exactly("2")>>))>>)]],
     inter |->
        [alphabet |-> {"a", "b", "c"},
         rules |-> [grammar |->
                      Body(<<Interleave(<<"1", "+", "?">>,
                                        <<Body(<<Exactly("a")>>),
                                          Body(<<Exactly("b")>>),
                                          Body(<<Exactly("c")>>)>>,
                                        <<"a", "b", "">>)>>)]],
     args |->
        [alphabet |-> {"a", "b"},
         rules |-> [grammar |->
                      Body(<<ApplyWith("pre", <<"1", "2">>),
                             ApplyWith("exactly", <<"a">>)>>),
                    pre |->
                      Body(<<Bind(Apply("anything"), "a"),
                             Bind(Apply("anything"), "b"),
                             Apply("anything"), Action("add")>>)]],
     guard |->
        [alphabet |-> {"a", "b", "c"},
         rules |-> [grammar |->
                      Body(<<Apply("anything"),
                             Optional(Body(<<Exactly("b")>>)),
                             Bind(Apply("anything"), "a"),
                             Pred("a == 'a'")>>)]],
     rep |->
        [alphabet |-> {"a", "b", "c"},
         rules |-> [grammar |->
                      Body(<<Apply("anything"),
                             Optional(Body(<<Exactly("c")>>)),
                             Many(Body(<<Interleave(
                                 <<"1", "1">>,
                                 <<Body(<<Exactly("a")>>),
                                   Body(<<Exactly("b")>>)>>,
                                 <<"", "">>)>>))>>)]],
     spin |->
        [alphabet |-> {"a", "b"},
         rules |-> [grammar |->
                      Body(<<Many(Body(<<Optional(
                                 Body(<<Exactly("a")>>))>>))>>)]]]

GrammarNames == DOMAIN Grammars

\* Rules implemented by OMetaBase itself.
BuiltinRules == {"anything", "end", "letter", "exactly"}

RuleNames ==
    BuiltinRules \cup UNION {DOMAIN Grammars[gn].rules : gn \in GrammarNames}

Names == {"a", "b"}

\* Grammars run on a list of objects instead of a text, and the longest
\* such list.
ListGrammars == {"listp"}

MaxTokens == 2

\* Longest text for the grammars over the larger alphabets that have no
\* recursive rule.
MaxText == 4

\* Grammars that read a fixed number of tokens are run on short sources.
SourceLen(gn) ==
    IF gn \in ListGrammars \cup {"args", "guard", "rep", "spin"}
    THEN MaxTokens
    ELSE IF gn \in {"lines", "span", "inter", "choice"} THEN MaxText
    ELSE MaxLen

\* The objects a source is made of: characters, and for a list source
\* numbers (written as characters) and lists of numbers.
Token(sym) ==
    CASE sym = "[1]" -> List(<<Chr("1")>>)
      [] sym = "[12]" -> List(<<Chr("1"), Chr("2")>>)
      [] sym = "[123]" -> List(<<Chr("1"), Chr("2"), Chr("3")>>)
      [] OTHER -> Chr(sym)

\* str.isalpha() of a token
isalpha(x) == x[1] = "chr" /\ x[2] \in {"a", "b", "c", "d", "x"}

(***************************************************************************)
(* Memo records and InputStream objects.  heap[i] is one InputStream       *)
(* object; a cursor is its index, so cursor equality is object identity.   *)
(* tl = 0 stands for None.                                                 *)
(***************************************************************************)
MemoRec(k, detected, val, err, cur) ==
    [k |-> k, detected |-> detected, val |-> val, err |-> err, cur |-> cur]
MemoNone == MemoRec("None", FALSE, PyNone, NoError, 0)
LeftRecursion == MemoRec("LR", FALSE, PyNone, NoError, 0)
MemoDone(val, err, cur) == MemoRec("Done", FALSE, val, err, cur)

InputStream(data, position, basetype) ==
    [kind |-> "stream", data |-> data, position |-> position, tl |-> 0,
     memo |-> [r \in RuleNames |-> MemoNone], basetype |-> basetype]

\* InputStream.fromIterable of a text (decoded by parse) or of a list
fromIterable(iterable, basetype) ==
    InputStream([i \in 1..Len(iterable) |-> Token(iterable[i])], 0, basetype)

\* InputStream.fromIterable(v) in listpattern: list(v) of a list object;
\* a character or a number raises TypeError.
Iterable(v) == v[1] = "list"

\* An argument pushed in front of the cursor parent.
ArgInput(arg, parent, err) ==
    [kind |-> "arg", arg |-> arg, parent |-> parent,
     memo |-> [r \in RuleNames |-> MemoNone], err |-> err]

RECURSIVE nullError(_, _)
nullError(h, c) ==
    IF h[c].kind = "arg" THEN nullError(h, h[c].parent)
    ELSE Err(h[c].position, {})

\* head() raises EOFError: only an InputStream has an end.
AtEnd(h, c) == h[c].kind = "stream" /\ h[c].position >= Len(h[c].data)

\* head() of a cursor that is not at the end: (token, [position, None])
head(h, c) ==
    IF h[c].kind = "arg" THEN [val |-> h[c].arg, err |-> h[c].err]
    ELSE [val |-> h[c].data[h[c].position + 1],
          err |-> Err(h[c].position, {})]

\* A tail() that makes a new InputStream at every call.
tailFresh(h, c) ==
    IF h[c].kind = "arg" THEN [heap |-> h, cur |-> h[c].parent]
    ELSE [heap |-> Append([h EXCEPT ![c].tl = Len(h) + 1],
                          InputStream(h[c].data, h[c].position + 1,
                                      h[c].basetype)),
          cur |-> Len(h) + 1]

\* tail(): the next cursor, created on first use and kept in tl.
tail(h, c) ==
    IF h[c].kind = "arg" THEN [heap |-> h, cur |-> h[c].parent]
    ELSE IF h[c].tl # 0 THEN [heap |-> h, cur |-> h[c].tl]
    ELSE [heap |-> Append([h EXCEPT ![c].tl = Len(h) + 1],
                          InputStream(h[c].data, h[c].position + 1,
                                      h[c].basetype)),
          cur |-> Len(h) + 1]

getMemo(h, c, name) == h[c].memo[name]

setMemo(h, c, name, rec) == [h EXCEPT ![c].memo[name] = rec]

(***************************************************************************)
(* State.                                                                  *)
(***************************************************************************)
VARIABLES
    g,             \* the grammar class parse was called on
    source,        \* the text handed to parse
    heap,          \* the InputStream objects created so far
    input,         \* self.input
    currentError,  \* self.currentError
    stack,         \* the Python call stack, innermost frame last
    ctl,           \* what happens next: a call, a return or a raise
    outcome,       \* what parse returned or raised
    maxRaised,     \* history: furthest position of any failure raised
    applyRets      \* history: results returned by zero-argument applications

vars == <<g, source, heap, input, currentError, stack, ctl, outcome,
          maxRaised, applyRets>>

Rules == Grammars[g].rules

EmptyLocals == [n \in Names |-> Unbound]

\* The local variables of one call.  wins is history: the alternatives of an
\* _xor that have succeeded; so is matched: the operands of an _interleave
\* that have matched, with their values, in match order.
Frame(op) ==
    [op |-> op, es |-> <<>>, i |-> 0, m |-> 0, errors |-> <<>>,
     ans |-> <<>>, ok |-> FALSE, result |-> PyNone, result_input |-> 0,
     rule |-> "", old |-> 0, sentinel |-> 0, phase |-> "",
     locals |-> EmptyLocals, wins |-> <<>>, e |-> NoError, args |-> <<>>,
     names |-> <<>>, matched |-> <<>>]

Ctl(kind) ==
    [kind |-> kind, e |-> OptNone, c |-> "", val |-> PyNone,
     err |-> NoError, by |-> ""]

Top == stack[Len(stack)]
Pop == SubSeq(stack, 1, Len(stack) - 1)
Push(f) == Append(stack, f)
ReplaceTop(f) == [stack EXCEPT ![Len(stack)] = f]

Returned == ctl.kind = "ret" /\ stack # <<>>
Raised == ctl.kind = "raise" /\ stack # <<>>

\* Transfers of control.  A raise is recorded in maxRaised.
CallElem(e) == /\ ctl' = [Ctl("elem") EXCEPT !.e = e]
               /\ UNCHANGED maxRaised
CallClosure(f) == /\ ctl' = [Ctl("clos") EXCEPT !.e = f]
                  /\ UNCHANGED maxRaised
CallRule(name) == /\ ctl' = [Ctl("rule") EXCEPT !.c = name]
                  /\ UNCHANGED maxRaised
Return(val, err, by) ==
    /\ ctl' = [Ctl("ret") EXCEPT !.val = val, !.err = err, !.by = by]
    /\ UNCHANGED maxRaised
Raise(err, by) ==
    /\ ctl' = [Ctl("raise") EXCEPT !.err = err, !.by = by]
    /\ maxRaised' = IF err.pos > maxRaised THEN err.pos ELSE maxRaised

\* parse: cls(source) has run OMetaBase.__init__
Init ==
    /\ g \in GrammarNames
    /\ source \in UNION {[1..n -> Grammars[g].alphabet] :
                              n \in 0..SourceLen(g)}
    /\ heap = <<fromIterable(source, IF g \in ListGrammars THEN "list"
                                      ELSE "unicode")>>
    /\ input = 1
    /\ currentError = nullError(heap, 1)
    /\ stack = <<>>
    /\ ctl = Ctl("parse")
    /\ outcome = [status |-> "running", val |-> PyNone, err |-> NoError,
                  line |-> 0, column |-> 0]
    /\ maxRaised = NoPos
    /\ applyRets = {}

(***************************************************************************)
(* parse: apply('grammar'), and report currentError if that raises.        *)
(***************************************************************************)
ParseStart ==
    /\ ctl.kind = "parse"
    /\ CallElem(Apply("grammar"))
    /\ UNCHANGED <<g, source, heap, input, currentError, stack, outcome,
                   applyRets>>

ParseOk ==
    /\ ctl.kind = "ret" /\ stack = <<>>
    /\ outcome' = [outcome EXCEPT !.status = "ok", !.val = ctl.val,
                                  !.err = ctl.err]
    /\ ctl' = Ctl("done")
    /\ UNCHANGED <<g, source, heap, input, currentError, stack, maxRaised,
                   applyRets>>

\* input.split('\n')
RECURSIVE split(_)
split(text) ==
    IF text = <<>> THEN << <<>> >>
    ELSE LET rest == split(Tail(text))
         IN IF Head(text) = "\n" THEN << <<>> >> \o rest
            ELSE << <<Head(text)>> \o Head(rest) >> \o Tail(rest)

\* The for loop of formatError over the lines still to visit.
RECURSIVE formatLoop(_, _, _, _)
formatLoop(lines, position, counter, line_number) ==
    IF lines = <<>> THEN [line |-> line_number, column |-> 0]
    ELSE LET new_counter == counter + Len(Head(lines)) + 1
         IN IF new_counter > position
            THEN [line |-> line_number, column |-> position - counter]
            ELSE formatLoop(Tail(lines), position, new_counter,
                            line_number + 1)

\* formatError that counts lines from 0.
formatErrorFromZero(text, position) ==
    formatLoop(split(text), position, 0, 0)

\* The line and column formatError prints for a failure at position.
formatError(text, position) ==
    formatLoop(split(text), position, 0, 1)

\* except _MaybeParseError:
\*     raise ParseError(parser.currentError.formatError(source))
\* A list has no split: for a list source this raises AttributeError.
ParseFail ==
    /\ ctl.kind = "raise" /\ stack = <<>>
    /\ IF g \in ListGrammars
       THEN outcome' = [outcome EXCEPT !.status = "AttributeError"]
       ELSE LET where == formatError(source, currentError.pos)
            IN outcome' = [outcome EXCEPT !.status = "ParseError",
                                          !.err = currentError,
                                          !.line = where.line,
                                          !.column = where.column]
    /\ ctl' = Ctl("done")
    /\ UNCHANGED <<g, source, heap, input, currentError, stack, maxRaised,
                   applyRets>>

(***************************************************************************)
(* exactly(wanted)                                                         *)
(***************************************************************************)
\* exactly without `self.input = i` before the raise.
exactlyStays ==
    /\ ctl.kind = "elem" /\ ctl.e.op = "exactly"
    /\ IF AtEnd(heap, input)
       THEN /\ Raise(EOFError(heap[input].position), "exactly")
            /\ UNCHANGED <<heap, input>>
       ELSE LET hd == head(heap, input)
                t == tail(heap, input)
            IN /\ heap' = t.heap
               /\ input' = t.cur
               /\ IF Chr(ctl.e.c) = hd.val
                  THEN Return(hd.val, hd.err, "exactly")
                  ELSE Raise(Err(hd.err.pos, expected("None", ctl.e.c)),
                             "exactly")
    /\ UNCHANGED <<g, source, currentError, stack, outcome, applyRets>>

exactly ==
    /\ ctl.kind = "elem" /\ ctl.e.op = "exactly"
    /\ IF AtEnd(heap, input)
       THEN /\ Raise(EOFError(heap[input].position), "exactly")
            /\ UNCHANGED <<heap, input>>
       ELSE LET i == input
                hd == head(heap, input)
                t == tail(heap, input)
            IN /\ heap' = t.heap
               /\ IF Chr(ctl.e.c) = hd.val
                  THEN /\ input' = t.cur
                       /\ Return(hd.val, hd.err, "exactly")
                  ELSE /\ input' = i
                       /\ Raise(Err(hd.err.pos, expected("None", ctl.e.c)),
                                "exactly")
    /\ UNCHANGED <<g, source, currentError, stack, outcome, applyRets>>

(***************************************************************************)
(* An embedded Python expression: eval(expr, globals, _locals), None       *)
(***************************************************************************)
LocalsIndex ==
    CHOOSE i \in 1..Len(stack) :
        /\ stack[i].op = "rule"
        /\ \A j \in (i + 1)..Len(stack) : stack[j].op # "rule"

eval(expr, locals) ==
    IF expr = "add" THEN Add(locals["a"], locals["b"])
    ELSE IF expr = "a == 'a'"
    THEN (IF locals["a"] = Chr("a") THEN PyTrue ELSE PyFalse)
    ELSE PyNone

python ==
    /\ ctl.kind = "elem" /\ ctl.e.op = "action"
    /\ Return(eval(ctl.e.c, stack[LocalsIndex].locals), NoError, "python")
    /\ UNCHANGED <<g, source, heap, input, currentError, stack, outcome,
                   applyRets>>

(***************************************************************************)
(* A compiled closure or rule body: call each element, considerError its   *)
(* lastError, bind its value, and return (last value, self.currentError).  *)
(***************************************************************************)
ClosureEnter ==
    /\ ctl.kind = "clos" /\ ctl.e.k = "seq"
    /\ stack' = Push([Frame("seq") EXCEPT !.es = ctl.e.es, !.i = 1])
    /\ CallElem(ctl.e.es[1])
    /\ UNCHANGED <<g, source, heap, input, currentError, outcome, applyRets>>

\* _G_optional_2: return (None, self.input.nullError())
ClosureNone ==
    /\ ctl.kind = "clos" /\ ctl.e.k = "none"
    /\ Return(PyNone, nullError(heap, input), "optional")
    /\ UNCHANGED <<g, source, heap, input, currentError, stack, outcome,
                   applyRets>>

Bound(stk, name, val) ==
    IF name = "" THEN stk
    ELSE LET li == CHOOSE i \in 1..Len(stk) :
                       /\ stk[i].op = "rule"
                       /\ \A j \in (i + 1)..Len(stk) : stk[j].op # "rule"
         IN [stk EXCEPT ![li].locals[name] = val]

ClosureNext ==
    /\ Returned /\ Top.op \in {"seq", "rule"}
    /\ LET ce == considerError(currentError, ctl.err)
           bound == Bound(stack, Top.es[Top.i].bind, ctl.val)
       IN /\ currentError' = ce
          /\ IF Top.i < Len(Top.es)
             THEN /\ stack' = [bound EXCEPT ![Len(stack)].i = Top.i + 1]
                  /\ CallElem(Top.es[Top.i + 1])
             ELSE /\ stack' = SubSeq(bound, 1, Len(stack) - 1)
                  /\ Return(ctl.val, ce, Top.op)
    /\ UNCHANGED <<g, source, heap, input, outcome, applyRets>>

\* An exception leaves a frame that has no handler for it.
Propagate ==
    /\ Raised /\ Top.op \in {"seq", "rule", "many1", "consumed_by", "pred"}
    /\ stack' = Pop
    /\ UNCHANGED <<g, source, heap, input, currentError, ctl, outcome,
                   maxRaised, applyRets>>

(***************************************************************************)
(* _or(fns)                                                                *)
(***************************************************************************)
\* locals is history: the _locals of the calling rule at entry.
OrEnter ==
    /\ ctl.kind = "elem" /\ ctl.e.op = "or"
    /\ stack' = Push([Frame("or") EXCEPT
                         !.es = ctl.e.alts, !.i = 1, !.m = input,
                         !.locals = stack[LocalsIndex].locals])
    /\ CallClosure(ctl.e.alts[1])
    /\ UNCHANGED <<g, source, heap, input, currentError, outcome, applyRets>>

\* _or that goes on to the next alternative after a success.
OrAltOkContinues ==
    /\ Returned /\ Top.op = "or"
    /\ IF Top.i < Len(Top.es)
       THEN /\ stack' = ReplaceTop([Top EXCEPT !.i = Top.i + 1])
            /\ CallClosure(Top.es[Top.i + 1])
       ELSE /\ stack' = Pop
            /\ Return(ctl.val, joinErrors(Append(Top.errors, ctl.err)), "or")
    /\ UNCHANGED <<g, source, heap, input, currentError, outcome, applyRets>>

OrAltOk ==
    /\ Returned /\ Top.op = "or"
    /\ stack' = Pop
    /\ Return(ctl.val, joinErrors(Append(Top.errors, ctl.err)), "or")
    /\ UNCHANGED <<g, source, heap, input, currentError, outcome, applyRets>>

OrAltFail ==
    /\ Raised /\ Top.op = "or"
    /\ input' = Top.m
    /\ LET errors == Append(Top.errors, ctl.err)
       IN IF Top.i < Len(Top.es)
          THEN /\ stack' = ReplaceTop([Top EXCEPT !.errors = errors,
                                                  !.i = Top.i + 1,
                                                  !.m = Top.m])
               /\ CallClosure(Top.es[Top.i + 1])
          ELSE /\ stack' = Pop
               /\ Raise(joinErrors(errors), "or")
    /\ UNCHANGED <<g, source, heap, currentError, outcome, applyRets>>

(***************************************************************************)
(* _xor(fns)                                                               *)
(***************************************************************************)
XorEnter ==
    /\ ctl.kind = "elem" /\ ctl.e.op = "xor"
    /\ stack' = Push([Frame("xor") EXCEPT !.es = ctl.e.alts, !.i = 1,
                                           !.m = input])
    /\ input' = input
    /\ CallClosure(ctl.e.alts[1])
    /\ UNCHANGED <<g, source, heap, currentError, outcome, applyRets>>

\* The rest of the for loop over fns and the code after it, for the frame f.
XorContinue(f) ==
    IF f.i < Len(f.es)
    THEN /\ stack' = ReplaceTop([f EXCEPT !.i = f.i + 1])
         /\ input' = f.m
         /\ CallClosure(f.es[f.i + 1])
    ELSE /\ stack' = Pop
         /\ IF ~f.ok
            THEN /\ input' = f.m
                 /\ Raise(joinErrors(f.errors), "xor")
            ELSE /\ input' = f.result_input
                 /\ Return(f.result, joinErrors(f.errors), "xor")

XorAltFail ==
    /\ Raised /\ Top.op = "xor"
    /\ XorContinue([Top EXCEPT !.errors = Append(Top.errors, ctl.err)])
    /\ UNCHANGED <<g, source, heap, currentError, outcome, applyRets>>

\* _xor that returns at its first success, as _or does.
XorAltOkFirstWins ==
    /\ Returned /\ Top.op = "xor"
    /\ stack' = Pop
    /\ Return(ctl.val, joinErrors(Append(Top.errors, ctl.err)), "xor")
    /\ UNCHANGED <<g, source, heap, input, currentError, outcome, applyRets>>

XorAltOk ==
    /\ Returned /\ Top.op = "xor"
    /\ IF Top.ok
       THEN /\ input' = Top.m
            /\ stack' = Pop
            /\ Raise(Err(heap[Top.m].position,
                         {<<"message", "xor rule matched", Top.result,
                            ctl.val>>}), "xor")
       ELSE XorContinue([Top EXCEPT !.errors = Append(Top.errors, ctl.err),
                                    !.result = ctl.val,
                                    !.result_input = input,
                                    !.ok = TRUE,
                                    !.wins = Append(Top.wins, Top.i)])
    /\ UNCHANGED <<g, source, heap, currentError, outcome, applyRets>>

(***************************************************************************)
(* _not(fn)                                                                *)
(***************************************************************************)
NotEnter ==
    /\ ctl.kind = "elem" /\ ctl.e.op = "not"
    /\ stack' = Push([Frame("not") EXCEPT !.m = input])
    /\ CallClosure(ctl.e.alts[1])
    /\ UNCHANGED <<g, source, heap, input, currentError, outcome, applyRets>>

NotFnFail ==
    /\ Raised /\ Top.op = "not"
    /\ input' = Top.m
    /\ stack' = Pop
    /\ Return(PyTrue, nullError(heap, Top.m), "not")
    /\ UNCHANGED <<g, source, heap, currentError, outcome, applyRets>>

NotFnOk ==
    /\ Returned /\ Top.op = "not"
    /\ stack' = Pop
    /\ Raise(nullError(heap, input), "not")
    /\ UNCHANGED <<g, source, heap, input, currentError, outcome, applyRets>>

(***************************************************************************)
(* pred(expr)                                                              *)
(***************************************************************************)
\* m is history: the cursor at entry.
PredEnter ==
    /\ ctl.kind = "elem" /\ ctl.e.op = "pred"
    /\ stack' = Push([Frame("pred") EXCEPT !.m = input])
    /\ CallClosure(ctl.e.alts[1])
    /\ UNCHANGED <<g, source, heap, input, currentError, outcome, applyRets>>

\* `not val` of a value
falsy(val) == val \in {PyFalse, PyNone, List(<<>>), Str(<<>>)}

\* val, e = expr(): e is what the closure returned, self.currentError;
\* raise _MaybeParseError(*e) or return True, e
PredOk ==
    /\ Returned /\ Top.op = "pred"
    /\ stack' = Pop
    /\ IF falsy(ctl.val) THEN Raise(ctl.err, "pred")
       ELSE Return(PyTrue, ctl.err, "pred")
    /\ UNCHANGED <<g, source, heap, input, currentError, outcome, applyRets>>

(***************************************************************************)
(* many(fn)                                                                *)
(***************************************************************************)
\* The frame holds history: old is the cursor at entry, i the number of
\* calls of fn made so far, and ok says that every success of fn so far has
\* ended further on than it began.
ManyEnter ==
    /\ ctl.kind = "elem" /\ ctl.e.op = "many"
    /\ stack' = Push([Frame("many") EXCEPT !.es = ctl.e.alts, !.m = input,
                                            !.old = input, !.i = 1,
                                            !.ok = TRUE])
    /\ CallClosure(ctl.e.alts[1])
    /\ UNCHANGED <<g, source, heap, input, currentError, outcome, applyRets>>

\* The longest list ans that is followed: a longer one can only come from a
\* loop that has stopped reading the input.
MaxRun == MaxLen + 2

\* A loop that goes back to m after every success of fn.
ManyFnOkAgain ==
    /\ Returned /\ Top.op = "many"
    /\ Len(Top.ans) < MaxRun
    /\ stack' = ReplaceTop([Top EXCEPT
                               !.ans = Append(Top.ans, ctl.val),
                               !.i = Top.i + 1,
                               !.ok = Top.ok /\ nullError(heap, input).pos
                                                  > nullError(heap, Top.m).pos])
    /\ input' = Top.m
    /\ CallClosure(Top.es[1])
    /\ UNCHANGED <<g, source, heap, currentError, outcome, applyRets>>

\* ans.append(ans_); m = self.input, and round the loop again
ManyFnOk ==
    /\ Returned /\ Top.op = "many"
    /\ Len(Top.ans) < MaxRun
    /\ stack' = ReplaceTop([Top EXCEPT
                               !.ans = Append(Top.ans, ctl.val),
                               !.m = input,
                               !.i = Top.i + 1,
                               !.ok = Top.ok /\ nullError(heap, input).pos
                                                  > nullError(heap, Top.m).pos])
    /\ CallClosure(Top.es[1])
    /\ UNCHANGED <<g, source, heap, input, currentError, outcome, applyRets>>

\* many without `self.input = m` in its except clause.
ManyFnFailStays ==
    /\ Raised /\ Top.op = "many"
    /\ stack' = Pop
    /\ Return(List(Top.ans), ctl.err, "many")
    /\ UNCHANGED <<g, source, heap, input, currentError, outcome, applyRets>>

ManyFnFail ==
    /\ Raised /\ Top.op = "many"
    /\ input' = Top.m
    /\ stack' = Pop
    /\ Return(List(Top.ans), ctl.err, "many")
    /\ UNCHANGED <<g, source, heap, currentError, outcome, applyRets>>

\* self.many(fn, fn()): the argument fn() is evaluated first
Many1Enter ==
    /\ ctl.kind = "elem" /\ ctl.e.op = "many1"
    /\ stack' = Push([Frame("many1") EXCEPT !.es = ctl.e.alts])
    /\ CallClosure(ctl.e.alts[1])
    /\ UNCHANGED <<g, source, heap, input, currentError, outcome, applyRets>>

\* many(fn, initial): ans starts with the initial value, then the loop
Many1First ==
    /\ Returned /\ Top.op = "many1"
    /\ stack' = ReplaceTop([Frame("many") EXCEPT !.es = Top.es,
                                                 !.ans = <<ctl.val>>,
                                                 !.m = input,
                                                 !.old = input, !.i = 1,
                                                 !.ok = TRUE])
    /\ CallClosure(Top.es[1])
    /\ UNCHANGED <<g, source, heap, input, currentError, outcome, applyRets>>

(***************************************************************************)
(* listpattern(expr)                                                       *)
(***************************************************************************)
\* v, e = self.rule_anything(); oldInput = self.input;
\* self.input = InputStream.fromIterable(v), or the TypeError handler, whose
\* failure carries the bare item ("expected", "an iterable", None).
\* m is history: the cursor at entry.
ListEnter ==
    /\ ctl.kind = "elem" /\ ctl.e.op = "listpattern"
    /\ IF AtEnd(heap, input)
       THEN /\ Raise(EOFError(heap[input].position), "listpattern")
            /\ UNCHANGED <<heap, input, stack>>
       ELSE LET hd == head(heap, input)
                t == tail(heap, input)
            IN IF Iterable(hd.val)
               THEN /\ heap' = Append(t.heap,
                                      InputStream(hd.val[2], 0, "list"))
                    /\ input' = Len(t.heap) + 1
                    /\ stack' = Push([Frame("listpattern") EXCEPT
                                          !.m = input, !.old = t.cur,
                                          !.result = hd.val, !.e = hd.err,
                                          !.phase = "expr"])
                    /\ CallClosure(ctl.e.alts[1])
               ELSE /\ heap' = t.heap
                    /\ input' = t.cur
                    /\ stack' = stack
                    /\ Raise(Err(hd.err.pos, expected("an iterable", "None")),
                             "listpattern")
    /\ UNCHANGED <<g, source, currentError, outcome, applyRets>>

\* expr() has returned: self.end()
ListExprOk ==
    /\ Returned /\ Top.op = "listpattern" /\ Top.phase = "expr"
    /\ stack' = ReplaceTop([Top EXCEPT !.phase = "end"])
    /\ CallRule("end")
    /\ UNCHANGED <<g, source, heap, input, currentError, outcome, applyRets>>

\* listpattern that returns without `self.input = oldInput`.
ListEndOkStays ==
    /\ Returned /\ Top.op = "listpattern" /\ Top.phase = "end"
    /\ stack' = Pop
    /\ Return(Top.result, Top.e, "listpattern")
    /\ UNCHANGED <<g, source, heap, input, currentError, outcome, applyRets>>

\* self.input = oldInput; return v, e
ListEndOk ==
    /\ Returned /\ Top.op = "listpattern" /\ Top.phase = "end"
    /\ input' = Top.old
    /\ stack' = Pop
    /\ Return(Top.result, Top.e, "listpattern")
    /\ UNCHANGED <<g, source, heap, currentError, outcome, applyRets>>

\* expr() or self.end() raises: listpattern has no handler and no finally.
ListFail ==
    /\ Raised /\ Top.op = "listpattern"
    /\ stack' = Pop
    /\ ctl' = [ctl EXCEPT !.by = "listpattern"]
    /\ UNCHANGED <<g, source, heap, input, currentError, outcome, maxRaised,
                   applyRets>>

(***************************************************************************)
(* consumed_by(f)                                                          *)
(***************************************************************************)
ConsumedByEnter ==
    /\ ctl.kind = "elem" /\ ctl.e.op = "consumed_by"
    /\ stack' = Push([Frame("consumed_by") EXCEPT !.m = input])
    /\ CallClosure(ctl.e.alts[1])
    /\ UNCHANGED <<g, source, heap, input, currentError, outcome, applyRets>>

\* ''.join(consumed)
join(parts) == Str([i \in 1..Len(parts) |-> parts[i][2]])

\* m.data[m.position:self.input.position], joined for a text
consumed(h, m, cur) ==
    LET slice == SubSeq(h[m].data, h[m].position + 1, h[cur].position)
    IN IF h[m].basetype \in {"str", "unicode"} THEN join(slice)
       ELSE List(slice)

\* consumed_by that returns what f returned.
ConsumedByOkValue ==
    /\ Returned /\ Top.op = "consumed_by"
    /\ stack' = Pop
    /\ Return(ctl.val, ctl.err, "consumed_by")
    /\ UNCHANGED <<g, source, heap, input, currentError, outcome, applyRets>>

ConsumedByOk ==
    /\ Returned /\ Top.op = "consumed_by"
    /\ stack' = Pop
    /\ Return(consumed(heap, Top.m, input), ctl.err, "consumed_by")
    /\ UNCHANGED <<g, source, heap, input, currentError, outcome, applyRets>>

(***************************************************************************)
(* _interleave(_locals, *args)                                             *)
(* The frame keeps the functions in es, the modes (args[idx], rewritten as *)
(* operands match) in args, the names in names and currInput in m.         *)
(***************************************************************************)
\* A Python list orders above every integer: the position of the failure
\* _MaybeParseError(args, *joinErrors(errors)) is the list args.
ListPos == MaxLen + 2

\* The first operand from index `from` on whose mode is not '0'; 0 if none.
Scan(f, from) ==
    IF \E k \in from..Len(f.es) : f.args[k] # "0"
    THEN CHOOSE k \in from..Len(f.es) :
             /\ f.args[k] # "0"
             /\ \A j \in from..(k - 1) : f.args[j] = "0"
    ELSE 0

\* for idx ...: if name: _locals[name] = ans[idx/3]
RECURSIVE BindAll(_, _, _, _)
BindAll(stk, names, ans, k) ==
    IF k > Len(names) THEN stk
    ELSE BindAll(Bound(stk, names[k], ans[k]), names, ans, k + 1)

\* An _interleave that succeeds as soon as one operand has matched.
SatisfiedAny(f) == f.errors # <<>>

\* No args[idx] is left outside ('*', '0', '?').
Satisfied(f) == \A k \in 1..Len(f.args) : f.args[k] \in {"*", "0", "?"}

\* The scan from operand `from` on for the frame f above the frames stk, and
\* the code after the while loop once a whole scan has matched nothing.
\* The failure raised has the list args as its position and the joined
\* position as its error; with no match at all joinErrors([]) raises
\* IndexError.
InterleaveStep(stk, f, from) ==
    LET idx == Scan(f, from)
    IN /\ input' = f.m
       /\ IF idx # 0
          THEN /\ stack' = Append(stk, [f EXCEPT !.i = idx])
               /\ CallClosure(f.es[idx])
          ELSE IF Satisfied(f)
          THEN /\ stack' = BindAll(stk, f.names, f.ans, 1)
               /\ Return(List(f.ans), f.e, "_interleave")
          ELSE IF f.errors = <<>>
          THEN /\ stack' = stk
               /\ ctl' = [Ctl("throw") EXCEPT !.c = "IndexError",
                                              !.by = "_interleave"]
               /\ UNCHANGED maxRaised
          ELSE /\ stack' = stk
               /\ Raise(Err(ListPos,
                            {<<"position", joinErrors(f.errors).pos>>}),
                        "_interleave")

InterleaveEnter ==
    /\ ctl.kind = "elem" /\ ctl.e.op = "interleave"
    /\ InterleaveStep(stack,
           [Frame("interleave") EXCEPT
               !.es = ctl.e.alts, !.args = ctl.e.args, !.names = ctl.e.names,
               !.m = input, !.old = input,
               !.ans = [k \in 1..Len(ctl.e.args) |->
                           IF ctl.e.args[k] \in {"*", "+"} THEN List(<<>>)
                           ELSE PyNone]],
           1)
    /\ UNCHANGED <<g, source, heap, currentError, outcome, applyRets>>

\* fun() has returned (v, e): record v by the mode, then scan again from the
\* first operand at the new cursor.
InterleaveOk ==
    /\ Returned /\ Top.op = "interleave"
    /\ LET idx == Top.i
           mod == Top.args[idx]
           f == [Top EXCEPT
                    !.ans[idx] = IF mod \in {"*", "+"}
                                 THEN List(Append(Top.ans[idx][2], ctl.val))
                                 ELSE ctl.val,
                    !.args[idx] = IF mod \in {"*", "+"} THEN "*" ELSE "0",
                    !.errors = Append(Top.errors, ctl.err),
                    !.m = input,
                    !.e = ctl.err,
                    !.matched = Append(Top.matched,
                                       [i |-> idx, val |-> ctl.val])]
       IN InterleaveStep(Pop, f, 1)
    /\ UNCHANGED <<g, source, heap, currentError, outcome, applyRets>>

\* except _MaybeParseError: self.input = currInput, and on to the next one
InterleaveFail ==
    /\ Raised /\ Top.op = "interleave"
    /\ InterleaveStep(Pop, Top, Top.i + 1)
    /\ UNCHANGED <<g, source, heap, currentError, outcome, applyRets>>

\* An exception that is no _MaybeParseError: no frame handles it, and
\* neither does parse.
Uncaught ==
    /\ ctl.kind = "throw"
    /\ stack' = <<>>
    /\ outcome' = [outcome EXCEPT !.status = ctl.c]
    /\ ctl' = Ctl("done")
    /\ UNCHANGED <<g, source, heap, input, currentError, maxRaised,
                   applyRets>>

(***************************************************************************)
(* _apply(rule, ruleName, []) : the memoized application.                  *)
(***************************************************************************)
\* An application of ruleName at cursor c is still running its procedure.
Applying(stk, c, ruleName) ==
    \E k \in 1..Len(stk) :
        stk[k].op = "apply" /\ stk[k].old = c /\ stk[k].rule = ruleName

\* One successful zero-argument application: of ruleName at cursor c, giving
\* val and the cursor end; hit says it was answered from the memo table,
\* outer that no application of ruleName at c was still running.
ApplyRet(stk, c, ruleName, val, end, hit) ==
    [cur |-> c, rule |-> ruleName, val |-> val, end |-> end, hit |-> hit,
     outer |-> ~Applying(stk, c, ruleName)]

\* self.input = memoRec[1]; return memoRec[0]
MemoCursor(memoRec) == memoRec.cur

\* A memo hit that returns the stored value but leaves the cursor alone.
ApplyMemoKeepsCursor ==
    /\ ctl.kind = "elem" /\ ctl.e.op = "apply"
    /\ getMemo(heap, input, ctl.e.c).k = "Done"
    /\ LET memoRec == getMemo(heap, input, ctl.e.c)
       IN /\ Return(memoRec.val, memoRec.err, "apply")
          /\ applyRets' = applyRets \cup
                 {ApplyRet(stack, input, ctl.e.c, memoRec.val, input, TRUE)}
    /\ UNCHANGED <<g, source, heap, input, currentError, stack, outcome>>

ApplyMemo ==
    /\ ctl.kind = "elem" /\ ctl.e.op = "apply"
    /\ getMemo(heap, input, ctl.e.c).k = "Done"
    /\ LET memoRec == getMemo(heap, input, ctl.e.c)
       IN /\ input' = MemoCursor(memoRec)
          /\ Return(memoRec.val, memoRec.err, "apply")
          /\ applyRets' = applyRets \cup
                 {ApplyRet(stack, input, ctl.e.c, memoRec.val, input', TRUE)}
    /\ UNCHANGED <<g, source, heap, currentError, stack, outcome>>

ApplyLeftRecursion ==
    /\ ctl.kind = "elem" /\ ctl.e.op = "apply"
    /\ getMemo(heap, input, ctl.e.c).k = "LR"
    /\ heap' = [heap EXCEPT ![input].memo[ctl.e.c].detected = TRUE]
    /\ Raise(Err(NoPos, {}), "apply")
    /\ UNCHANGED <<g, source, input, currentError, stack, outcome, applyRets>>

ApplyFresh ==
    /\ ctl.kind = "elem" /\ ctl.e.op = "apply"
    /\ getMemo(heap, input, ctl.e.c).k = "None"
    /\ heap' = setMemo(heap, input, ctl.e.c, LeftRecursion)
    /\ stack' = Push([Frame("apply") EXCEPT !.rule = ctl.e.c, !.old = input,
                                             !.phase = "seed"])
    /\ CallRule(ctl.e.c)
    /\ UNCHANGED <<g, source, input, currentError, outcome, applyRets>>

\* Leaving _apply after the first run or the growing loop:
\* self.input = oldPosition; self.input = memoRec[1]; return memoRec[0]
ApplyFinish(h) ==
    LET memoRec == getMemo(h, Top.old, Top.rule)
    IN /\ input' = MemoCursor(memoRec)
       /\ stack' = Pop
       /\ Return(memoRec.val, memoRec.err, "apply")
       /\ applyRets' = applyRets \cup
              {ApplyRet(Pop, Top.old, Top.rule, memoRec.val, input', FALSE)}

\* A growing loop that gives up after the seed.
GrowStopsAtOnce(cur, sentinel) == TRUE

\* if (self.input == sentinel): break
GrowStops(cur, sentinel) == cur = sentinel

ApplySeedOk ==
    /\ Returned /\ Top.op = "apply" /\ Top.phase = "seed"
    /\ LET lr == getMemo(heap, Top.old, Top.rule)
           h == setMemo(heap, Top.old, Top.rule,
                        MemoDone(ctl.val, ctl.err, input))
       IN /\ heap' = h
          /\ IF lr.detected
             THEN /\ stack' = ReplaceTop([Top EXCEPT !.sentinel = input,
                                                     !.phase = "grow"])
                  /\ input' = Top.old
                  /\ CallRule(Top.rule)
                  /\ UNCHANGED applyRets
             ELSE ApplyFinish(h)
    /\ UNCHANGED <<g, source, currentError, outcome>>

\* except _MaybeParseError: raise
ApplySeedFail ==
    /\ Raised /\ Top.op = "apply" /\ Top.phase = "seed"
    /\ stack' = Pop
    /\ UNCHANGED <<g, source, heap, input, currentError, ctl, outcome,
                   maxRaised, applyRets>>

ApplyGrowOk ==
    /\ Returned /\ Top.op = "apply" /\ Top.phase = "grow"
    /\ IF GrowStops(input, Top.sentinel)
       THEN /\ heap' = heap
            /\ ApplyFinish(heap)
       ELSE /\ heap' = setMemo(heap, Top.old, Top.rule,
                               MemoDone(ctl.val, ctl.err, input))
            /\ input' = Top.old
            /\ stack' = stack
            /\ CallRule(Top.rule)
            /\ UNCHANGED applyRets
    /\ UNCHANGED <<g, source, currentError, outcome>>

ApplyGrowFail ==
    /\ Raised /\ Top.op = "apply" /\ Top.phase = "grow"
    /\ ApplyFinish(heap)
    /\ UNCHANGED <<g, source, heap, currentError, outcome>>

(***************************************************************************)
(* _apply(rule, ruleName, args) with arguments.                            *)
(***************************************************************************)
\* rule.func_code.co_argcount - 1
Arity(ruleName) == IF ruleName = "exactly" THEN 1 ELSE 0

\* for arg in args: self.input = ArgInput(arg, self.input), first one
\* first.
RECURSIVE PushArgsForward(_, _, _)
PushArgsForward(h, cur, args) ==
    IF args = <<>> THEN [heap |-> h, cur |-> cur]
    ELSE PushArgsForward(Append(h, ArgInput(Chr(Head(args)), cur,
                                            nullError(h, cur))),
                         Len(h) + 1, Tail(args))

\* for arg in args[::-1]: self.input = ArgInput(arg, self.input)
RECURSIVE PushArgs(_, _, _)
PushArgs(h, cur, args) ==
    IF args = <<>> THEN [heap |-> h, cur |-> cur]
    ELSE PushArgs(Append(h, ArgInput(Chr(args[Len(args)]), cur,
                                     nullError(h, cur))),
                  Len(h) + 1, SubSeq(args, 1, Len(args) - 1))

\* The argument count differs from the rule's: return rule()
ApplyArgs ==
    /\ ctl.kind = "elem" /\ ctl.e.op = "applyargs"
    /\ Arity(ctl.e.c) # Len(ctl.e.args)
    /\ LET pushed == PushArgs(heap, input, ctl.e.args)
       IN /\ heap' = pushed.heap
          /\ input' = pushed.cur
    /\ CallRule(ctl.e.c)
    /\ UNCHANGED <<g, source, currentError, stack, outcome, applyRets>>

\* An application with arguments that goes through the memo table as one
\* without arguments does.
ApplyDirectMemo ==
    /\ ctl.kind = "elem" /\ ctl.e.op = "applyargs"
    /\ Arity(ctl.e.c) = Len(ctl.e.args)
    /\ heap' = setMemo(heap, input, ctl.e.c, LeftRecursion)
    /\ stack' = Push([Frame("apply") EXCEPT !.rule = ctl.e.c, !.old = input,
                                             !.phase = "seed"])
    /\ CallElem(Exactly(ctl.e.args[1]))
    /\ UNCHANGED <<g, source, input, currentError, outcome, applyRets>>

\* The counts agree: return rule(*args), here self.exactly(arg)
ApplyDirect ==
    /\ ctl.kind = "elem" /\ ctl.e.op = "applyargs"
    /\ Arity(ctl.e.c) = Len(ctl.e.args)
    /\ CallElem(Exactly(ctl.e.args[1]))
    /\ UNCHANGED <<g, source, heap, input, currentError, stack, outcome,
                   applyRets>>

(***************************************************************************)
(* Rule procedures.                                                        *)
(***************************************************************************)
\* A compiled rule: _locals = {'self': self}, then the body.
RuleEnter ==
    /\ ctl.kind = "rule" /\ ctl.c \notin BuiltinRules
    /\ stack' = Push([Frame("rule") EXCEPT !.es = Rules[ctl.c].es, !.i = 1,
                                            !.rule = ctl.c,
                                            !.locals = EmptyLocals])
    /\ CallElem(Rules[ctl.c].es[1])
    /\ UNCHANGED <<g, source, heap, input, currentError, outcome, applyRets>>

rule_anything ==
    /\ ctl.kind = "rule" /\ ctl.c = "anything"
    /\ IF AtEnd(heap, input)
       THEN /\ Raise(EOFError(heap[input].position), "anything")
            /\ UNCHANGED <<heap, input>>
       ELSE LET hd == head(heap, input)
                t == tail(heap, input)
            IN /\ heap' = t.heap
               /\ input' = t.cur
               /\ Return(hd.val, hd.err, "anything")
    /\ UNCHANGED <<g, source, currentError, stack, outcome, applyRets>>

\* letter: x, e = self.rule_anything(), then x.isalpha() decides; the
\* cursor stays behind x either way.
rule_letter ==
    /\ ctl.kind = "rule" /\ ctl.c = "letter"
    /\ IF AtEnd(heap, input)
       THEN /\ Raise(EOFError(heap[input].position), "letter")
            /\ UNCHANGED <<heap, input>>
       ELSE LET hd == head(heap, input)
                t == tail(heap, input)
            IN /\ heap' = t.heap
               /\ input' = t.cur
               /\ IF isalpha(hd.val)
                  THEN Return(hd.val, hd.err, "letter")
                  ELSE Raise(Err(hd.err.pos, expected("letter", "None")),
                             "letter")
    /\ UNCHANGED <<g, source, currentError, stack, outcome, applyRets>>

\* end: return self._not(self.rule_anything)
end ==
    /\ ctl.kind = "rule" /\ ctl.c = "end"
    /\ stack' = Push([Frame("not") EXCEPT !.m = input])
    /\ CallRule("anything")
    /\ UNCHANGED <<g, source, heap, input, currentError, outcome, applyRets>>

Next ==
    \/ ParseStart \/ ParseOk \/ ParseFail
    \/ exactly \/ python
    \/ ClosureEnter \/ ClosureNone \/ ClosureNext \/ Propagate
    \/ OrEnter \/ OrAltOk \/ OrAltFail
    \/ XorEnter \/ XorAltFail \/ XorAltOk
    \/ NotEnter \/ NotFnFail \/ NotFnOk
    \/ PredEnter \/ PredOk
    \/ ManyEnter \/ ManyFnOk \/ ManyFnFail
    \/ ApplyMemo \/ ApplyLeftRecursion \/ ApplyFresh
    \/ ApplySeedOk \/ ApplySeedFail \/ ApplyGrowOk \/ ApplyGrowFail
    \/ Many1Enter \/ Many1First
    \/ ListEnter \/ ListExprOk \/ ListEndOk \/ ListFail
    \/ ConsumedByEnter \/ ConsumedByOk
    \/ InterleaveEnter \/ InterleaveOk \/ InterleaveFail \/ Uncaught
    \/ ApplyArgs \/ ApplyDirect
    \/ RuleEnter \/ rule_anything \/ rule_letter \/ end

Spec == Init /\ [][Next]_vars

\* The interpreter runs whenever it can: Python executes the next statement.
FairSpec == Spec /\ WF_vars(Next)

(***************************************************************************)
(* The InputStream interface used on its own: a client that builds         *)
(* cursors over the source with fromIterable, tail() and prev(), keeps     *)
(* them all and compares them.  input is the cursor it last obtained.      *)
(***************************************************************************)
\* Most InputStream objects the client makes.
MaxObjects == 4

\* prev(): a new InputStream one position back, at every call.
prev(h, c) ==
    [heap |-> Append(h, InputStream(h[c].data, h[c].position - 1,
                                    h[c].basetype)),
     cur |-> Len(h) + 1]

\* c == d of two InputStream objects: the class defines no __eq__, Python
\* compares the objects' identities.
CursorEq(c, d) == c = d

CursorInit == Init /\ SourceLen(g) = MaxTokens

CursorTail ==
    /\ ~AtEnd(heap, input)
    /\ Len(heap) < MaxObjects \/ heap[input].tl # 0
    /\ heap' = tail(heap, input).heap
    /\ input' = tail(heap, input).cur
    /\ UNCHANGED <<g, source, currentError, stack, ctl, outcome, maxRaised,
                   applyRets>>

CursorPrev ==
    /\ heap[input].position > 0
    /\ Len(heap) < MaxObjects
    /\ heap' = prev(heap, input).heap
    /\ input' = prev(heap, input).cur
    /\ UNCHANGED <<g, source, currentError, stack, ctl, outcome, maxRaised,
                   applyRets>>

\* InputStream.fromIterable(source) once more
CursorConstruct ==
    /\ Len(heap) < MaxObjects
    /\ heap' = Append(heap, fromIterable(source, heap[1].basetype))
    /\ input' = Len(heap) + 1
    /\ UNCHANGED <<g, source, currentError, stack, ctl, outcome, maxRaised,
                   applyRets>>

\* Going back to a cursor obtained earlier.
CursorRetained ==
    /\ \E c \in 1..Len(heap) : c # input /\ input' = c
    /\ UNCHANGED <<g, source, heap, currentError, stack, ctl, outcome,
                   maxRaised, applyRets>>

CursorNext == CursorTail \/ CursorPrev \/ CursorConstruct \/ CursorRetained

CursorSpec == CursorInit /\ [][CursorNext]_vars

(***************************************************************************)
(* Properties.                                                             *)
(***************************************************************************)
Finished == ctl.kind = "done"

Position == heap[input].position

\* source is num ('+' num)^k
IsSum(src) ==
    /\ Len(src) % 2 = 1
    /\ \A i \in 1..Len(src) :
           IF i % 2 = 1 THEN src[i] \in {"1", "2"} ELSE src[i] = "+"

\* ((n1+n2)+n3)... for the first n tokens of a sum
RECURSIVE LeftNest(_, _)
LeftNest(src, n) ==
    IF n <= 1 THEN Chr(src[1])
    ELSE Add(LeftNest(src, n - 2), Chr(src[n]))

\* C1: the directly left-recursive rule Expr = Expr '+' num | num, applied
\* at the start of num ('+' num)^k, always ends, succeeds, leaves the cursor
\* at end-of-input and yields the left-nested addition.
DirectLeftRecursion ==
    (g = "direct" /\ IsSum(source))
        ~> (/\ g = "direct" /\ IsSum(source)
            /\ Finished
            /\ outcome.status = "ok"
            /\ outcome.val = LeftNest(source, Len(source))
            /\ Position = Len(source))

DirectLeftRecursionWitness ==
    /\ g = "direct" /\ source = <<"1", "+", "2", "+", "1">>
    /\ Finished
    /\ outcome.val = Add(Add(Chr("1"), Chr("2")), Chr("1"))
    /\ Position = 5

SameApplication(x, y) == x.cur = y.cur /\ x.rule = y.rule

\* The rule procedure of x's rule is being invoked for x's cursor.
Invoking(x) ==
    /\ ctl.kind = "rule" /\ stack # <<>>
    /\ Top.op = "apply" /\ Top.old = x.cur /\ Top.rule = x.rule

\* C2 as stated: once a zero-argument application of r at C has succeeded,
\* every later one returns the same value and end cursor, and the rule
\* procedure is not invoked again.
MemoIdempotent ==
    /\ \A x, y \in applyRets :
           SameApplication(x, y) => (x.val = y.val /\ x.end = y.end)
    /\ \A x \in applyRets : ~Invoking(x)

\* C2 amended: once the application of r at C that ran the procedure (with
\* its growing loop) has returned, every later zero-argument application of
\* r at C returns the same value and end cursor and runs nothing again.
MemoSettled ==
    /\ \A x, y \in applyRets :
           (SameApplication(x, y) /\ x.outer /\ y.outer)
               => (x.val = y.val /\ x.end = y.end)
    /\ \A x \in applyRets : x.outer => ~Applying(stack, x.cur, x.rule)

MemoSettledWitness ==
    \E x, y \in applyRets :
        /\ SameApplication(x, y) /\ x.outer /\ y.outer
        /\ ~x.hit /\ y.hit
        /\ ctl.kind = "ret" /\ ctl.by = "apply" /\ input = y.end

\* C3: every memoized application that detects left recursion leaves its
\* growing loop: the parse always comes to an end.
GrowingTerminates == <>Finished

\* C4: indirect left recursion (A = B '+' num | num, B = A) gives what the
\* direct rule gives on num ('+' num)^k: the left-nested addition, with the
\* cursor at end-of-input.
IndirectLikeDirect ==
    (g = "indirect" /\ IsSum(source) /\ Finished)
        => (/\ outcome.status = "ok"
            /\ outcome.val = LeftNest(source, Len(source))
            /\ Position = Len(source))

\* C5: when the parse fails, the failure parse reports is located at the
\* furthest position at which any failure was raised.
ReportsFurthestFailure ==
    (Finished /\ outcome.status = "ParseError")
        => outcome.err.pos = maxRaised

\* C6: considerError replaces the stored failure whenever the new one is at
\* the same position or further, with the expected items united on a tie
\* (so a failure at the initial position 0 is recorded).  Stated for the
\* reports that carry expected items.
ConsiderErrorKeepsTies ==
    [][(ClosureNext /\ ctl.err.exp # {} /\ ctl.err.pos >= currentError.pos)
          => /\ currentError'.pos = ctl.err.pos
             /\ currentError'.exp =
                    IF ctl.err.pos = currentError.pos
                    THEN currentError.exp \cup ctl.err.exp
                    ELSE ctl.err.exp]_vars

\* The failures of all alternatives once the last one has failed.
AllFailures == Append(Top.errors, ctl.err)

FurthestOf(errors) ==
    CHOOSE p \in {errors[i].pos : i \in 1..Len(errors)} :
        \A i \in 1..Len(errors) : errors[i].pos <= p

\* The furthest position, with what the failures at that position expected.
Merged(errors) ==
    Err(FurthestOf(errors),
        UNION {errors[i].exp :
               i \in {j \in 1..Len(errors) :
                        errors[j].pos = FurthestOf(errors)}})

OrderedChoice ==
    [][/\ (ctl'.kind = "clos" /\ stack' # <<>>
              /\ stack'[Len(stack')].op = "or")
          => LET f == stack'[Len(stack')]
             IN /\ ctl'.e = f.es[f.i]
                /\ Len(f.errors) = f.i - 1
                /\ input' = f.m
                /\ IF ctl.kind = "elem" THEN f.i = 1 /\ f.m = input
                   ELSE f.i = Top.i + 1 /\ f.m = Top.m /\ Raised
       /\ (Returned /\ Top.op = "or")
          => /\ stack' = Pop
             /\ ctl'.kind = "ret" /\ ctl'.val = ctl.val
             /\ input' = input]_vars

\* Expr's first alternative wins although num would match too
OrderedChoiceWitness ==
    /\ g = "direct" /\ source = <<"1", "+", "2">>
    /\ ctl.kind = "ret" /\ ctl.by = "or"
    /\ ctl.val = Add(Chr("1"), Chr("2"))
    /\ Position = 3

\* The alternatives of the innermost _xor that have succeeded, counting the
\* one returning now.
WinsNow == IF Returned THEN Append(Top.wins, Top.i) ELSE Top.wins

NotKeepsCursor ==
    [][((Returned \/ Raised) /\ Top.op = "not") => input' = Top.m]_vars

\* C11: whenever listpattern raises a failure (the token is no sequence,
\* the sub-expression fails, or elements are left over), the cursor is back
\* at the cursor listpattern was entered with: neither inside the
\* sub-stream nor past the outer token.
ListPatternRestores ==
    [][/\ (ctl.kind = "elem" /\ ctl.e.op = "listpattern"
              /\ ctl'.kind = "raise")
          => input' = input
       /\ (Raised /\ Top.op = "listpattern") => input' = Top.m]_vars

\* The token at the cursor c of an InputStream is v and d is one token on.
OnePast(h, c, v, d) ==
    /\ h[c].kind = "stream" /\ h[d].kind = "stream"
    /\ h[c].position < Len(h[c].data)
    /\ h[c].data[h[c].position + 1] = v
    /\ h[d].data = h[c].data
    /\ h[d].position = h[c].position + 1

\* C12: listpattern(expr) succeeds iff the next token v is a sequence, expr
\* succeeds on a fresh stream over v's elements and that stream is then at
\* its end; it returns v itself and leaves the cursor on the enclosing
\* stream one token past the entry cursor.
ListPatternSucceeds ==
    [][/\ (ctl.kind = "elem" /\ ctl.e.op = "listpattern")
          => IF ~AtEnd(heap, input) /\ Iterable(head(heap, input).val)
             THEN /\ ctl'.kind = "clos" /\ ctl'.e = ctl.e.alts[1]
                  /\ input' > Len(heap)
                  /\ heap'[input'].data = head(heap, input).val[2]
                  /\ heap'[input'].position = 0
             ELSE ctl'.kind = "raise"
       /\ (Returned /\ Top.op = "listpattern" /\ Top.phase = "expr")
          => /\ ctl'.kind = "rule" /\ ctl'.c = "end"
             /\ input' = input
       /\ (Returned /\ Top.op = "listpattern" /\ Top.phase = "end")
          => /\ AtEnd(heap, input)
             /\ ctl'.kind = "ret" /\ ctl'.by = "listpattern"
       /\ (ctl'.kind = "ret" /\ ctl'.by = "listpattern")
          => /\ Returned /\ Top.op = "listpattern" /\ Top.phase = "end"
             /\ stack' = Pop
             /\ Iterable(ctl'.val)
             /\ OnePast(heap', Top.m, ctl'.val, input')]_vars

\* [1, 2] against ['1' '2']
ListPatternSucceedsWitness ==
    /\ g = "listp" /\ source = <<"[12]">>
    /\ ctl.kind = "ret" /\ ctl.by = "listpattern"
    /\ ctl.val = List(<<Chr("1"), Chr("2")>>)
    /\ input = heap[1].tl /\ Position = 1

\* The _interleave call being made: the element its caller is at.
CallSite == stack[Len(stack) - 1].es[stack[Len(stack) - 1].i]

\* The matches of the innermost _interleave, counting the one returning
\* now.
MatchedNow ==
    IF Returned THEN Append(Top.matched, [i |-> Top.i, val |-> ctl.val])
    ELSE Top.matched

\* The values operand k matched, in match order.
ValuesOf(ms, k) ==
    LET sel == SelectSeq(ms, LAMBDA x : x.i = k)
    IN [j \in 1..Len(sel) |-> sel[j].val]

\* _interleave stops scanning in this step.
InterleaveStops ==
    /\ (Returned \/ Raised) /\ Top.op = "interleave"
    /\ ctl'.by = "_interleave"

\* C13: _interleave succeeds iff, when scanning stops, every '1' and '+'
\* operand has matched at least once; the result of a '*' or '+' operand
\* is the list of its matches in match order, that of a '1' or '?' operand
\* its single match or None.
InterleaveSucceeds ==
    [][InterleaveStops
          => LET modes == CallSite.args
                 ms == MatchedNow
             IN /\ (ctl'.kind = "ret")
                       <=> \A k \in 1..Len(modes) :
                               modes[k] \in {"1", "+"}
                                   => ValuesOf(ms, k) # <<>>
                /\ (ctl'.kind = "ret")
                       => ctl'.val =
                              List([k \in 1..Len(modes) |->
                                      IF modes[k] \in {"*", "+"}
                                      THEN List(ValuesOf(ms, k))
                                      ELSE IF ValuesOf(ms, k) = <<>>
                                      THEN PyNone
                                      ELSE ValuesOf(ms, k)[1]])
                /\ \A k \in 1..Len(modes) :
                       modes[k] \in {"1", "?"}
                           => Len(ValuesOf(ms, k)) <= 1]_vars

\* ('a' && 'b'+ && 'c'?) on "bab": a, [b, b], nothing
InterleaveSucceedsWitness ==
    /\ g = "inter" /\ source = <<"b", "a", "b">>
    /\ ctl.kind = "ret" /\ ctl.by = "_interleave"
    /\ ctl.val = List(<<Chr("a"), List(<<Chr("b"), Chr("b")>>), PyNone>>)
    /\ Position = 3

\* C14: when _interleave does not succeed (also when no operand matched at
\* all) it raises an ordinary parse failure, a position with a set of
\* expected items, never another kind of error.
InterleaveFailsOrdinarily ==
    [][(InterleaveStops /\ ctl'.kind # "ret")
          => /\ ctl'.kind = "raise"
             /\ ctl'.err.pos \in 0..Len(source)
             /\ \A it \in ctl'.err.exp : it[1] \in {"expected", "message"}]_vars

\* The characters of the source text from position p up to position q.
Between(p, q) == Str([i \in 1..(q - p) |-> source[p + i]])

\* C15: consumed_by(f) returns the slice of the input between the cursor at
\* entry and the cursor f left, joined into a text for a textual input,
\* instead of f's value; the cursor stays where f left it.
ConsumedBySlice ==
    [][(Returned /\ Top.op = "consumed_by")
          => /\ ctl'.kind = "ret" /\ stack' = Pop
             /\ input' = input
             /\ ctl'.val = Between(heap[Top.m].position,
                                   heap[input].position)]_vars

\* <letter+> on "ab ": "ab", with the cursor before the space
ConsumedBySliceWitness ==
    /\ g = "span" /\ source = <<"a", "b", " ">>
    /\ ctl.kind = "ret" /\ ctl.by = "consumed_by"
    /\ ctl.val = Str(<<"a", "b">>)
    /\ Position = 2

\* C16: many(fn) collects the values of the successive successes of fn in
\* order, each attempt starting where the last success ended; the first
\* failure ends it with the cursor at the end of the last success (at the
\* entry cursor, with the empty list, if there was none).
ManyCollectsRun ==
    [][/\ (ctl.kind = "elem" /\ ctl.e.op = "many")
          => /\ ctl'.kind = "clos" /\ input' = input
             /\ stack'[Len(stack')].ans = <<>>
             /\ stack'[Len(stack')].m = input
       /\ (Returned /\ Top.op = "many")
          => /\ ctl'.kind = "clos" /\ input' = input
             /\ stack'[Len(stack')].ans = Append(Top.ans, ctl.val)
             /\ stack'[Len(stack')].m = input
       /\ (Raised /\ Top.op = "many")
          => /\ ctl'.kind = "ret" /\ stack' = Pop
             /\ ctl'.val = List(Top.ans)
             /\ input' = Top.m]_vars

\* letter+ on "ab ": the failing third attempt has moved the cursor
ManyCollectsRunWitness ==
    /\ g = "span" /\ source = <<"a", "b", " ">>
    /\ ctl.kind = "ret" /\ ctl.by = "many"
    /\ ctl.val = List(<<Chr("a"), Chr("b")>>)
    /\ Position = 2
    /\ heap[3].tl # 0

\* C17: exactly(v) consumes one token and succeeds iff the token equals v;
\* when it fails, on a mismatch or at the end of the input, the cursor is
\* the entry cursor and the failure is at the position of that token.
ExactlyMatchesOne ==
    [][(ctl.kind = "elem" /\ ctl.e.op = "exactly")
          => IF ~AtEnd(heap, input)
                    /\ head(heap, input).val = Chr(ctl.e.c)
             THEN /\ ctl'.kind = "ret" /\ ctl'.val = Chr(ctl.e.c)
                  /\ IF heap[input].kind = "arg"
                     THEN input' = heap[input].parent
                     ELSE OnePast(heap', input, Chr(ctl.e.c), input')
             ELSE /\ ctl'.kind = "raise"
                  /\ input' = input
                  /\ ctl'.err.pos = nullError(heap, input).pos]_vars

\* 'a' 'b' on "ac": the second exactly fails at position 1
ExactlyMatchesOneWitness ==
    /\ g = "pair" /\ source = <<"a", "c">>
    /\ ctl.kind = "raise" /\ ctl.by = "exactly"
    /\ ctl.err = Err(1, expected("None", "b"))
    /\ Position = 1

\* What n successive reads from the cursor c return, and the cursor after
\* them.
RECURSIVE Reads(_, _, _)
Reads(h, c, n) ==
    IF n = 0 THEN [vals |-> <<>>, cur |-> c]
    ELSE LET rest == Reads(tail(h, c).heap, tail(h, c).cur, n - 1)
         IN [vals |-> <<head(h, c).val>> \o rest.vals, cur |-> rest.cur]

\* C18: _apply with n arguments, n not the rule's arity, leaves the memo
\* tables alone and invokes the procedure with no arguments; the next n
\* reads return the arguments in order, and the reads after them start at
\* the cursor the call was made from.
ArgsReadBeforeInput ==
    [][(ctl.kind = "elem" /\ ctl.e.op = "applyargs"
            /\ Arity(ctl.e.c) # Len(ctl.e.args))
          => /\ ctl' = [Ctl("rule") EXCEPT !.c = ctl.e.c]
             /\ stack' = stack
             /\ SubSeq(heap', 1, Len(heap)) = heap
             /\ \A c \in (Len(heap) + 1)..Len(heap') :
                    \A r \in RuleNames : getMemo(heap', c, r) = MemoNone
             /\ LET n == Len(ctl.e.args)
                IN /\ Reads(heap', input', n).vals =
                          [i \in 1..n |-> Chr(ctl.e.args[i])]
                   /\ Reads(heap', input', n).cur = input]_vars

\* pre('1', '2') on "ba": pre reads 1, 2 and then the b of the input
ArgsReadBeforeInputWitness ==
    /\ g = "args" /\ source = <<"b", "a">>
    /\ ctl.kind = "ret" /\ ctl.by = "python"
    /\ ctl.val = Add(Chr("1"), Chr("2"))
    /\ Position = 1

\* The number of newlines before offset p of the text, and the offset at
\* which the line holding offset p starts.
NewlinesBefore(text, p) == Cardinality({i \in 1..p : text[i] = "\n"})

LineStart(text, p) ==
    LET nl == {i \in 1..p : text[i] = "\n"}
    IN IF nl = {} THEN 0 ELSE CHOOSE i \in nl : \A j \in nl : j <= i

\* C19 as stated: the line reported for a failure at offset p is 1 + the
\* newlines before p and the column 1 + the distance of p from the start
\* of its line.
OneBasedLineAndColumn ==
    (Finished /\ outcome.status = "ParseError")
        => LET p == outcome.err.pos
           IN /\ outcome.line = 1 + NewlinesBefore(source, p)
              /\ outcome.column = 1 + (p - LineStart(source, p))

\* C19 amended: the line is 1 + the newlines before p, the column is the
\* distance of p from the start of its line, counted from 0.
OneBasedLineZeroBasedColumn ==
    (Finished /\ outcome.status = "ParseError")
        => LET p == outcome.err.pos
           IN /\ outcome.line = 1 + NewlinesBefore(source, p)
              /\ outcome.column = p - LineStart(source, p)

\* ('a' | '\n')* end on "a\nab": the failure at offset 3 is on line 2
OneBasedLineZeroBasedColumnWitness ==
    /\ g = "lines" /\ source = <<"a", "\n", "a", "b">>
    /\ Finished /\ outcome.status = "ParseError"
    /\ outcome.err.pos = 3
    /\ outcome.line = 2 /\ outcome.column = 1

\* C20: a memoized zero-argument application that raises leaves no memo
\* entry behind: the in-progress sentinel is in the table only while the
\* application that stored it is running.
FailureNotCached ==
    \A c \in 1..Len(heap) : \A r \in RuleNames :
        getMemo(heap, c, r).k = "LR" => Applying(stack, c, r)

\* The position of the cursor c in the text.
PositionOf(h, c) == nullError(h, c).pos

\* C21: in the growing loop of a left-recursive application the memo entry
\* is replaced only by a result that ends strictly further than the entry
\* stored, and the loop stops at the first iteration that does not end
\* further than it.
GrowthStrictlyLonger ==
    [][(Returned /\ Top.op = "apply" /\ Top.phase = "grow")
          => LET stored == getMemo(heap, Top.old, Top.rule)
                 further == PositionOf(heap, input)
                                > PositionOf(heap, MemoCursor(stored))
             IN /\ (ctl'.kind = "rule") => further
                /\ ~further => /\ ctl'.kind = "ret"
                               /\ heap' = heap]_vars

\* The call of _apply made in this step goes through the memo table of the
\* current cursor: it answers from the entry stored there, or raises on the
\* entry in progress, or stores one and runs the procedure.
ThroughMemo ==
    \/ ctl'.by = "apply" /\ stack' = stack
    \/ /\ stack' = Push([Frame("apply") EXCEPT !.rule = ctl.e.c,
                                                !.old = input,
                                                !.phase = "seed"])
       /\ getMemo(heap', input, ctl.e.c).k = "LR"

CallsApply == ctl.kind = "elem" /\ ctl.e.op \in {"apply", "applyargs"}

\* C22 as stated: a call of _apply goes through the memo table exactly
\* when the number of arguments equals the rule's arity, also when there
\* are one or more arguments.
ArityMemoizes ==
    [][CallsApply
          => (Arity(ctl.e.c) = Len(ctl.e.args) <=> ThroughMemo)]_vars

\* C22 amended: a call of _apply goes through the memo table exactly when
\* it has no arguments.  A call with arguments leaves every memo table as
\* it is; when their number is the rule's arity the procedure is called
\* with them at the cursor of the call.
MemoizesWithoutArgs ==
    [][CallsApply
          => /\ (Len(ctl.e.args) = 0 <=> ThroughMemo)
             /\ (Len(ctl.e.args) > 0)
                    => /\ stack' = stack
                       /\ \A c \in 1..Len(heap) :
                              heap'[c].memo = heap[c].memo
             /\ (Len(ctl.e.args) > 0 /\ Arity(ctl.e.c) = Len(ctl.e.args))
                    => /\ ctl' = [Ctl("elem") EXCEPT
                                     !.e = Exactly(ctl.e.args[1])]
                       /\ input' = input /\ heap' = heap]_vars

\* exactly('a') after pre('1', '2') on "ba": it matches at position 1 and
\* no cursor holds an entry for it
MemoizesWithoutArgsWitness ==
    /\ g = "args" /\ source = <<"b", "a">>
    /\ ctl.kind = "ret" /\ ctl.by = "exactly"
    /\ Position = 2
    /\ \A c \in 1..Len(heap) : getMemo(heap, c, "exactly") = MemoNone

\* The _locals of the innermost rule invocation on the call stack stk.
ScopeOf(stk) ==
    LET li == CHOOSE i \in 1..Len(stk) :
                  /\ stk[i].op = "rule"
                  /\ \A j \in (i + 1)..Len(stk) : stk[j].op # "rule"
    IN stk[li].locals

\* C23: bindings do not leak between the clauses of a rule: when an
\* alternative of a choice has failed, the next alternative starts with the
\* rule's local scope as it was at entry to the choice; and every rule
\* invocation starts with a fresh, empty scope.
BindingsStayInClause ==
    [][/\ (Raised /\ Top.op = "or" /\ ctl'.kind = "clos")
          => ScopeOf(stack') = Top.locals
       /\ (ctl.kind = "rule" /\ ctl'.kind = "elem")
          => ScopeOf(stack') = EmptyLocals]_vars

\* C24: pred(expr) leaves the cursor where it was at entry; it succeeds
\* iff the value of expr is true, and otherwise raises a failure at the
\* position of the cursor that expects nothing.
PredFailsAtCursor ==
    [][(Returned /\ Top.op = "pred")
          => /\ input' = Top.m
             /\ IF falsy(ctl.val)
                THEN /\ ctl'.kind = "raise"
                     /\ ctl'.err = Err(PositionOf(heap, input), {})
                ELSE ctl'.kind = "ret"]_vars

\* C25: a built-in token matcher that raises a failure leaves the cursor
\* where it was at entry: no token read by a failed matcher stays consumed.
\* Stated for rule_anything, letter and exactly.
MatchersRestore ==
    [][(/\ \/ ctl.kind = "rule" /\ ctl.c \in {"anything", "letter"}
           \/ ctl.kind = "elem" /\ ctl.e.op = "exactly"
        /\ ctl'.kind = "raise")
          => input' = input]_vars

\* C26: when _interleave raises a failure, also after some operands have
\* matched, the cursor is back at the cursor _interleave was entered with
\* and the local scope of the calling rule is as it was.
InterleaveRestores ==
    [][(InterleaveStops /\ ctl'.kind = "raise")
          => /\ input' = Top.old
             /\ ScopeOf(stack') = ScopeOf(stack)]_vars

CursorsEqualByPosition ==
    \A c, d \in 1..Len(heap) :
        CursorEq(c, d) <=> /\ heap[c].data = heap[d].data
                           /\ heap[c].position = heap[d].position

\* C29: throughout a parse the position of the stored furthest failure is
\* an integer, a position of the source, that never decreases; the failure
\* without position raised as the base case of left recursion is never
\* stored.
FurthestFailureMonotone ==
    [][/\ currentError.pos \in 0..Len(source)
       /\ currentError'.pos \in 0..Len(source)
       /\ currentError'.pos >= currentError.pos
       /\ (Raised /\ ctl.err.pos = NoPos) => currentError' = currentError]_vars

\* The tokens left to read from the cursor c.
Remaining(h, c) == Len(h[c].data) - h[c].position

\* The calls of many that are running.
ManyFrames == {k \in 1..Len(stack) : stack[k].op = "many"}

\* C30: as long as every success of fn has advanced the cursor, many(fn)
\* has called fn at most once more than there were tokens left when it was
\* entered, so it ends on every finite input; once fn has succeeded
\* without advancing, many never returns.  The grammars whose fn always
\* advances come to an end.
ManyTerminates ==
    /\ [][/\ \A k \in ManyFrames :
                stack[k].ok
                    => stack[k].i <= Remaining(heap, stack[k].old) + 1
          /\ \A k \in ManyFrames :
                ~stack[k].ok
                    => /\ Len(stack') >= k
                       /\ stack'[k].op = "many" /\ ~stack'[k].ok
                       /\ stack'[k].old = stack[k].old]_vars
    /\ (g \in {"lines", "span"}) ~> Finished

\* ('a' | '\n')* on "a\na": the fourth call of fn fails at the end of
\* the three tokens
ManyTerminatesWitness ==
    /\ g = "lines" /\ source = <<"a", "\n", "a">>
    /\ Raised /\ Top.op = "many"
    /\ Top.ok /\ Top.i = 4
    /\ Top.ans = <<Chr("a"), Chr("\n"), Chr("a")>>

====
